---- MODULE Spec2Model ----
(***************************************************************************)
(* The four-in-a-row board of shuttlings-cch24/src/day5.rs: the Board      *)
(* struct (grid, winner, finished, rng), its methods and the four request  *)
(* handlers that lock the shared board.                                    *)
(***************************************************************************)
EXTENDS Integers, Sequences, FiniteSets, TLC

VARIABLES
    grid,       \* Board.grid, indexed row * WIDTH + col
    winner,     \* Board.winner
    finished,   \* Board.finished
    rng,        \* Board.rng: the number of draws made since seeding
    last,       \* the most recent call: operation, arguments, result
    shown,      \* body of the most recent 200 response of a handler
    mutex,      \* the Mutex around the Board: 0 unlocked, -1 poisoned, else the task holding it
    task,       \* the request each task is serving and where it is in its handler
    limiter,    \* the milk RateLimiter: the units it holds
    query       \* the /2 requests of one client: addresses sent, text received

vars == <<grid, winner, finished, rng, last, shown, mutex, task, limiter, query>>

(***************************************************************************)
(* Constants of the program and bounds of the model.                       *)
(***************************************************************************)
WIDTH == 6
HEIGHT == 5

\* Most pieces on a board explored with every column open.
MaxPieces == 4
\* Tasks serving requests at the same time.
NumTasks == 2
\* Most random_board calls explored between two resets.
MaxRandomCalls == 3

Pieces == {"Empty", "Wall", "Cookie", "Milk"}

\* Option<Piece>::None
None == "None"

OK == 200
BAD_REQUEST == 400
SERVICE_UNAVAILABLE == 503

\* Team strings and column numbers a caller may pass to play_piece.
TeamInputs == {"cookie", "milk", "eggnog"}
ColInputs == 0..5

\* Output of StdRng::seed_from_u64(2024).gen::<bool>(), draw by draw
\* (ChaCha12 keyed by the PCG32 expansion of 2024; gen::<bool>() is the top
\* bit of next_u32()).  The first 32 draws are the two grids asserted by
\* day5_tests::test_random_board.
RngBits ==
    << TRUE, TRUE, TRUE, TRUE,     FALSE, TRUE, TRUE, FALSE,
       FALSE, FALSE, FALSE, FALSE, TRUE, FALSE, TRUE, FALSE,
       TRUE, FALSE, TRUE, TRUE,    FALSE, TRUE, FALSE, TRUE,
       FALSE, TRUE, TRUE, TRUE,    TRUE, FALSE, FALSE, FALSE,
       TRUE, TRUE, FALSE, TRUE,    TRUE, FALSE, TRUE, TRUE,
       FALSE, TRUE, TRUE, FALSE,   TRUE, FALSE, TRUE, TRUE,
       FALSE, TRUE, TRUE, FALSE,   FALSE, TRUE, TRUE, TRUE,
       TRUE, FALSE, FALSE, FALSE,  TRUE, FALSE, TRUE, FALSE,
       FALSE, FALSE, FALSE, TRUE,  TRUE, TRUE, TRUE, FALSE,
       FALSE, TRUE, TRUE, FALSE,   TRUE, FALSE, FALSE, TRUE,
       TRUE, TRUE, TRUE, TRUE,     TRUE, TRUE, FALSE, FALSE,
       TRUE, FALSE, TRUE, TRUE,    FALSE, TRUE, FALSE, FALSE,
       TRUE, TRUE, FALSE, FALSE,   TRUE, FALSE, FALSE, FALSE,
       TRUE, FALSE, TRUE, FALSE,   TRUE, TRUE, FALSE, FALSE,
       TRUE, FALSE, TRUE, FALSE,   FALSE, TRUE, FALSE, FALSE,
       TRUE, FALSE, TRUE, TRUE,    FALSE, FALSE, FALSE, TRUE >>

\* self.rng.gen::<bool>() on a generator that has made n draws since seeding.
GenBool(n) == RngBits[n + 1]

(***************************************************************************)
(* Board methods.  A board value is a record of the four fields.           *)
(***************************************************************************)
Idx(row, col) == row * WIDTH + col

has_piece(b, row, col) == b.grid[Idx(row, col)] \in {"Cookie", "Milk"}

get_piece(b, row, col) == b.grid[Idx(row, col)]

check_finished(b) ==
    [b EXCEPT !.finished = ~(\E i \in DOMAIN b.grid : b.grid[i] = "Empty")]

\* set_piece that writes the cell and leaves finished as it is.
set_piece_no_check(b, row, col, piece) ==
    [b EXCEPT !.grid[Idx(row, col)] = piece]

set_piece(b, row, col, piece) ==
    check_finished([b EXCEPT !.grid[Idx(row, col)] = piece])

\* Piece's Display with the glyphs of Wall and Empty exchanged.
Glyph_swapped(piece) ==
    CASE piece = "Wall" -> "U+2B1B"
      [] piece = "Cookie" -> "U+1F36A"
      [] piece = "Milk" -> "U+1F95B"
      [] piece = "Empty" -> "U+2B1C"

\* Piece's Display (and Debug, which forwards to Display): one character,
\* written here by its Unicode code point.
Glyph(piece) ==
    CASE piece = "Wall" -> "U+2B1C"
      [] piece = "Cookie" -> "U+1F36A"
      [] piece = "Milk" -> "U+1F95B"
      [] piece = "Empty" -> "U+2B1B"

\* The grid part of Board's Display: for each row its WIDTH glyphs and a
\* newline, so character p of the text is cell (p - 1) % (WIDTH + 1) of row
\* (p - 1) \div (WIDTH + 1), or the newline after the last cell of the row.
RenderCells(b) ==
    [p \in 1..(HEIGHT * (WIDTH + 1)) |->
        LET row == (p - 1) \div (WIDTH + 1)
            col == (p - 1) % (WIDTH + 1)
        IN IF col = WIDTH THEN "\n" ELSE Glyph(get_piece(b, row, col))]

\* Board's Display naming the winner by the name of its variant, as a
\* derived Debug would.
Render_debug_name(b) ==
    RenderCells(b) \o
        (IF b.winner # None THEN << b.winner, " wins!", "\n" >>
         ELSE IF b.finished THEN << "No winner.", "\n" >>
         ELSE << >>)

\* Board's Display without the branch of a finished board with no winner.
Render_no_draw(b) ==
    RenderCells(b) \o
        (IF b.winner # None THEN << Glyph(b.winner), " wins!", "\n" >>
         ELSE << >>)

\* Board's Display: the text as a sequence of glyphs and literal pieces.
Render(b) ==
    RenderCells(b) \o
        (IF b.winner # None THEN << Glyph(b.winner), " wins!", "\n" >>
         ELSE IF b.finished THEN << "No winner.", "\n" >>
         ELSE << >>)

\* coords with the last cell of the ascending diagonal mistyped.
coords_typo ==
    << << <<0, 1>>, <<0, 2>>, <<0, 3>>, <<0, 4>> >>,
       << <<1, 1>>, <<1, 2>>, <<1, 3>>, <<1, 4>> >>,
       << <<2, 1>>, <<2, 2>>, <<2, 3>>, <<2, 4>> >>,
       << <<3, 1>>, <<3, 2>>, <<3, 3>>, <<3, 4>> >>,
       << <<0, 1>>, <<1, 1>>, <<2, 1>>, <<3, 1>> >>,
       << <<0, 2>>, <<1, 2>>, <<2, 2>>, <<3, 2>> >>,
       << <<0, 3>>, <<1, 3>>, <<2, 3>>, <<3, 3>> >>,
       << <<0, 4>>, <<1, 4>>, <<2, 4>>, <<3, 4>> >>,
       << <<0, 1>>, <<1, 2>>, <<2, 3>>, <<3, 4>> >>,
       << <<3, 1>>, <<2, 2>>, <<1, 3>>, <<0, 3>> >> >>

\* The valid positions for a connect 4, in scan order.
coords ==
    << << <<0, 1>>, <<0, 2>>, <<0, 3>>, <<0, 4>> >>,
       << <<1, 1>>, <<1, 2>>, <<1, 3>>, <<1, 4>> >>,
       << <<2, 1>>, <<2, 2>>, <<2, 3>>, <<2, 4>> >>,
       << <<3, 1>>, <<3, 2>>, <<3, 3>>, <<3, 4>> >>,
       << <<0, 1>>, <<1, 1>>, <<2, 1>>, <<3, 1>> >>,
       << <<0, 2>>, <<1, 2>>, <<2, 2>>, <<3, 2>> >>,
       << <<0, 3>>, <<1, 3>>, <<2, 3>>, <<3, 3>> >>,
       << <<0, 4>>, <<1, 4>>, <<2, 4>>, <<3, 4>> >>,
       << <<0, 1>>, <<1, 2>>, <<2, 3>>, <<3, 4>> >>,
       << <<3, 1>>, <<2, 2>>, <<1, 3>>, <<0, 4>> >> >>

\* pieces[i] for one coord of the scan.
LinePieces(b, coord) ==
    [i \in 1..4 |-> get_piece(b, coord[i][1], coord[i][2])]

\* The scan with finished assigned from the outcome: false when no line.
RECURSIVE ScanLinesClear(_, _)
ScanLinesClear(b, k) ==
    IF k > Len(coords) THEN [b EXCEPT !.finished = FALSE]
    ELSE LET pieces == [i \in 1..4 |->
                           get_piece(b, coords[k][i][1], coords[k][i][2])]
         IN IF (\A i \in 1..4 : pieces[i] = "Milk")
               \/ (\A i \in 1..4 : pieces[i] = "Cookie")
            THEN [b EXCEPT !.winner = pieces[1], !.finished = TRUE]
            ELSE ScanLinesClear(b, k + 1)

\* The scan without its break: the last matching line wins.
RECURSIVE ScanLinesLast(_, _)
ScanLinesLast(b, k) ==
    IF k > Len(coords) THEN b
    ELSE LET pieces == [i \in 1..4 |->
                           get_piece(b, coords[k][i][1], coords[k][i][2])]
         IN IF (\A i \in 1..4 : pieces[i] = "Milk")
               \/ (\A i \in 1..4 : pieces[i] = "Cookie")
            THEN ScanLinesLast([b EXCEPT !.winner = pieces[1],
                                         !.finished = TRUE], k + 1)
            ELSE ScanLinesLast(b, k + 1)

\* The loop recording the winner without setting finished.
RECURSIVE ScanLinesNoFinish(_, _)
ScanLinesNoFinish(b, k) ==
    IF k > Len(coords) THEN b
    ELSE LET pieces == LinePieces(b, coords[k])
         IN IF (\A i \in 1..4 : pieces[i] = "Milk")
               \/ (\A i \in 1..4 : pieces[i] = "Cookie")
            THEN [b EXCEPT !.winner = pieces[1]]
            ELSE ScanLinesNoFinish(b, k + 1)

\* The loop taking any four equal cells for a line, Empty ones too.
RECURSIVE ScanLinesAnyPiece(_, _)
ScanLinesAnyPiece(b, k) ==
    IF k > Len(coords) THEN b
    ELSE LET pieces == LinePieces(b, coords[k])
         IN IF \A i \in 1..4 : pieces[i] = pieces[1]
            THEN [b EXCEPT !.winner = pieces[1], !.finished = TRUE]
            ELSE ScanLinesAnyPiece(b, k + 1)

RECURSIVE ScanLines(_, _)
ScanLines(b, k) ==
    IF k > Len(coords) THEN b
    ELSE LET pieces == LinePieces(b, coords[k])
         IN IF (\A i \in 1..4 : pieces[i] = "Milk")
               \/ (\A i \in 1..4 : pieces[i] = "Cookie")
            THEN [b EXCEPT !.winner = pieces[1], !.finished = TRUE]
            ELSE ScanLines(b, k + 1)

\* check_winner without the early return, looking for a line of a team that
\* is not the recorded winner.
RECURSIVE ScanOther(_, _)
ScanOther(b, k) ==
    IF k > Len(coords) THEN b
    ELSE LET pieces == [i \in 1..4 |->
                           get_piece(b, coords[k][i][1], coords[k][i][2])]
         IN IF /\ pieces[1] # b.winner
               /\ \/ \A i \in 1..4 : pieces[i] = "Milk"
                  \/ \A i \in 1..4 : pieces[i] = "Cookie"
            THEN [b EXCEPT !.winner = pieces[1], !.finished = TRUE]
            ELSE ScanOther(b, k + 1)

check_winner_overwrite(b) == ScanOther(b, 1)

\* check_winner closing the game whatever the scan finds.
check_winner_closes(b) ==
    IF b.winner # None THEN b
    ELSE [ScanLines(b, 1) EXCEPT !.finished = TRUE]

check_winner(b) ==
    IF b.winner # None THEN b ELSE ScanLines(b, 1)

RECURSIVE FillSides(_, _)
FillSides(b, row) ==
    IF row = HEIGHT THEN b
    ELSE FillSides(set_piece(set_piece(b, row, 0, "Wall"),
                             row, WIDTH - 1, "Wall"),
                   row + 1)

RECURSIVE FillBottom(_, _)
FillBottom(b, col) ==
    IF col = WIDTH THEN b
    ELSE FillBottom(set_piece(b, HEIGHT - 1, col, "Wall"), col + 1)

\* Board::new()
new ==
    FillBottom(
        FillSides([grid |-> [i \in 0..(WIDTH * HEIGHT - 1) |-> "Empty"],
                   winner |-> None,
                   finished |-> FALSE,
                   rng |-> 0],
                  0),
        0)

\* The fill loops drawing a boolean only for the cells that hold no piece.
RECURSIVE FillRandomSkip(_, _)
FillRandomSkip(b, k) ==
    IF k = (HEIGHT - 1) * (WIDTH - 2) THEN b
    ELSE IF has_piece(b, k \div (WIDTH - 2), 1 + (k % (WIDTH - 2)))
         THEN FillRandomSkip(b, k + 1)
    ELSE LET piece == IF GenBool(b.rng) THEN "Cookie" ELSE "Milk"
             drawn == [b EXCEPT !.rng = b.rng + 1]
         IN FillRandomSkip(set_piece(drawn, k \div (WIDTH - 2),
                                     1 + (k % (WIDTH - 2)), piece),
                           k + 1)

\* The fill loops of random_board, cell k of the playable area in row-major
\* order: row k \div 4 of 0..HEIGHT-2, column 1 + k % 4 of 1..WIDTH-2.
FillCell(b, k) ==
    LET piece == IF GenBool(b.rng) THEN "Cookie" ELSE "Milk"
        drawn == [b EXCEPT !.rng = b.rng + 1]
    IN set_piece(drawn, k \div (WIDTH - 2), 1 + (k % (WIDTH - 2)), piece)

\* The fill loops leaving out the last playable row: 0..HEIGHT-2 for
\* 0..HEIGHT-1 as the bound of the row loop.
RECURSIVE FillRandomShort(_, _)
FillRandomShort(b, k) ==
    IF k = (HEIGHT - 2) * (WIDTH - 2) THEN b
    ELSE FillRandomShort(FillCell(b, k), k + 1)

RECURSIVE FillRandom(_, _)
FillRandom(b, k) ==
    IF k = (HEIGHT - 1) * (WIDTH - 2) THEN b
    ELSE FillRandom(FillCell(b, k), k + 1)

\* random_board refusing a board that is already finished.
random_board_unless_finished(b) ==
    IF b.finished THEN b
    ELSE check_winner(FillRandom([b EXCEPT !.winner = None], 0))

\* random_board without the assignment self.winner = None.
random_board_keep_winner(b) ==
    check_winner(FillRandom(b, 0))

random_board(b) ==
    check_winner(FillRandom([b EXCEPT !.winner = None], 0))

\* reset that keeps the generator where it is.
reset_keep_rng(b) == [new EXCEPT !.rng = b.rng]

\* reset that rebuilds the grid and the generator only.
reset_keep_outcome(b) ==
    [new EXCEPT !.winner = b.winner, !.finished = b.finished]

\* Board::reset(): *self = Board::new()
reset(b) == new

\* The row loop without .rev(): rows are tried from row 0 down to row 3.
RECURSIVE DropPieceFromTop(_, _, _, _)
DropPieceFromTop(b, team, col, row) ==
    IF row < 0
    THEN [board |-> b, status |-> SERVICE_UNAVAILABLE, body |-> Render(b)]
    ELSE IF has_piece(b, 3 - row, col)
         THEN DropPieceFromTop(b, team, col, row - 1)
         ELSE [board |-> set_piece(b, 3 - row, col, team),
               status |-> OK, body |-> << >>]

\* The row loop writing the top cell of a full column before it gives up.
RECURSIVE DropPieceOverwrite(_, _, _, _)
DropPieceOverwrite(b, team, col, row) ==
    IF row < 0
    THEN [board |-> set_piece(b, 0, col, team),
          status |-> SERVICE_UNAVAILABLE, body |-> Render(b)]
    ELSE IF has_piece(b, row, col)
         THEN DropPieceOverwrite(b, team, col, row - 1)
         ELSE [board |-> set_piece(b, row, col, team),
               status |-> OK, body |-> << >>]

\* The row loop answering a full column as a bad request with no body.
RECURSIVE DropPieceBadRequest(_, _, _, _)
DropPieceBadRequest(b, team, col, row) ==
    IF row < 0
    THEN [board |-> b, status |-> BAD_REQUEST, body |-> << >>]
    ELSE IF has_piece(b, row, col)
         THEN DropPieceBadRequest(b, team, col, row - 1)
         ELSE [board |-> set_piece(b, row, col, team),
               status |-> OK, body |-> << >>]

\* The row loop closing the game when it finds the column full.
RECURSIVE DropPieceFinishes(_, _, _, _)
DropPieceFinishes(b, team, col, row) ==
    IF row < 0
    THEN [board |-> [b EXCEPT !.finished = TRUE],
          status |-> SERVICE_UNAVAILABLE, body |-> Render(b)]
    ELSE IF has_piece(b, row, col)
         THEN DropPieceFinishes(b, team, col, row - 1)
         ELSE [board |-> set_piece(b, row, col, team),
               status |-> OK, body |-> << >>]

\* The row loop stopping one row early: (1..4).rev() for (0..4).rev().
RECURSIVE DropPieceBelowTop(_, _, _, _)
DropPieceBelowTop(b, team, col, row) ==
    IF row < 1
    THEN [board |-> b, status |-> SERVICE_UNAVAILABLE, body |-> Render(b)]
    ELSE IF has_piece(b, row, col)
         THEN DropPieceBelowTop(b, team, col, row - 1)
         ELSE [board |-> set_piece(b, row, col, team),
               status |-> OK, body |-> << >>]

\* The row loop of play_piece, from row 3 up to row 0.
RECURSIVE DropPiece(_, _, _, _)
DropPiece(b, team, col, row) ==
    IF row < 0
    THEN [board |-> b, status |-> SERVICE_UNAVAILABLE, body |-> Render(b)]
    ELSE IF has_piece(b, row, col)
         THEN DropPiece(b, team, col, row - 1)
         ELSE [board |-> set_piece(b, row, col, team),
               status |-> OK, body |-> << >>]

\* play_piece accepting column 0: (0..=4) for (1..=4).
play_piece_col0(b, team, col) ==
    IF b.finished
    THEN [board |-> b, status |-> SERVICE_UNAVAILABLE, body |-> Render(b)]
    ELSE IF ~(col \in 0..4)
    THEN [board |-> b, status |-> BAD_REQUEST, body |-> << >>]
    ELSE IF team \notin {"cookie", "milk"}
    THEN [board |-> b, status |-> BAD_REQUEST, body |-> << >>]
    ELSE DropPiece(b, IF team = "cookie" THEN "Cookie" ELSE "Milk", col, 3)

\* play_piece validating its arguments before it looks at finished.
play_piece_validate_first(b, team, col) ==
    IF ~(col \in 1..4)
    THEN [board |-> b, status |-> BAD_REQUEST, body |-> << >>]
    ELSE IF team \notin {"cookie", "milk"}
    THEN [board |-> b, status |-> BAD_REQUEST, body |-> << >>]
    ELSE IF b.finished
    THEN [board |-> b, status |-> SERVICE_UNAVAILABLE, body |-> Render(b)]
    ELSE DropPiece(b, IF team = "cookie" THEN "Cookie" ELSE "Milk", col, 3)

\* play_piece matching the team before it looks at finished.
play_piece_team_first(b, team, col) ==
    IF team \notin {"cookie", "milk"}
    THEN [board |-> b, status |-> BAD_REQUEST, body |-> << >>]
    ELSE IF b.finished
    THEN [board |-> b, status |-> SERVICE_UNAVAILABLE, body |-> Render(b)]
    ELSE IF ~(col \in 1..4)
    THEN [board |-> b, status |-> BAD_REQUEST, body |-> << >>]
    ELSE DropPiece(b, IF team = "cookie" THEN "Cookie" ELSE "Milk", col, 3)

\* play_piece whose team match falls through to Milk.
play_piece_default_team(b, team, col) ==
    IF b.finished
    THEN [board |-> b, status |-> SERVICE_UNAVAILABLE, body |-> Render(b)]
    ELSE IF ~(col \in 1..4)
    THEN [board |-> b, status |-> BAD_REQUEST, body |-> << >>]
    ELSE DropPiece(b, IF team = "cookie" THEN "Cookie" ELSE "Milk", col, 3)

\* play_piece that runs the win check itself after a placement.
play_piece_checks_winner(b, team, col) ==
    IF b.finished
    THEN [board |-> b, status |-> SERVICE_UNAVAILABLE, body |-> Render(b)]
    ELSE IF ~(col \in 1..4)
    THEN [board |-> b, status |-> BAD_REQUEST, body |-> << >>]
    ELSE IF team \notin {"cookie", "milk"}
    THEN [board |-> b, status |-> BAD_REQUEST, body |-> << >>]
    ELSE LET r == DropPiece(b, IF team = "cookie" THEN "Cookie" ELSE "Milk", col, 3)
         IN [r EXCEPT !.board = check_winner(r.board)]

\* play_piece with the arms of its team match exchanged.
play_piece_swapped_teams(b, team, col) ==
    IF b.finished
    THEN [board |-> b, status |-> SERVICE_UNAVAILABLE, body |-> Render(b)]
    ELSE IF ~(col \in 1..4)
    THEN [board |-> b, status |-> BAD_REQUEST, body |-> << >>]
    ELSE IF team \notin {"cookie", "milk"}
    THEN [board |-> b, status |-> BAD_REQUEST, body |-> << >>]
    ELSE DropPiece(b, IF team = "cookie" THEN "Milk" ELSE "Cookie", col, 3)

\* play_piece whose row loop starts one row above the bottom row.
play_piece_from_row2(b, team, col) ==
    IF b.finished
    THEN [board |-> b, status |-> SERVICE_UNAVAILABLE, body |-> Render(b)]
    ELSE IF ~(col \in 1..4)
    THEN [board |-> b, status |-> BAD_REQUEST, body |-> << >>]
    ELSE IF team \notin {"cookie", "milk"}
    THEN [board |-> b, status |-> BAD_REQUEST, body |-> << >>]
    ELSE DropPiece(b, IF team = "cookie" THEN "Cookie" ELSE "Milk", col, 2)

play_piece(b, team, col) ==
    IF b.finished
    THEN [board |-> b, status |-> SERVICE_UNAVAILABLE, body |-> Render(b)]
    ELSE IF ~(col \in 1..4)
    THEN [board |-> b, status |-> BAD_REQUEST, body |-> << >>]
    ELSE IF team \notin {"cookie", "milk"}
    THEN [board |-> b, status |-> BAD_REQUEST, body |-> << >>]
    ELSE DropPiece(b, IF team = "cookie" THEN "Cookie" ELSE "Milk", col, 3)

(***************************************************************************)
(* The request handlers.  Each one locks the board for its whole body, so  *)
(* it is one step; the result is the new board and the response.           *)
(***************************************************************************)
\* format!("{board}") returned with 200 by a handler that holds board b.
Rendered(b) == [board |-> b, status |-> OK, body |-> Render(b)]

\* The board handler re-evaluating finished before it renders.
board_rechecked(b) == Rendered(check_finished(b))

\* GET /12/board
board(b) == Rendered(b)

\* POST /12/reset
reset_board(b) == Rendered(reset(b))

\* The rest of place_piece once play_piece has returned r: `?` passes an
\* error on, otherwise check_winner runs and the board is rendered.
AfterPlay(r) ==
    IF r.status # OK THEN r ELSE Rendered(check_winner(r.board))

\* POST /12/place/{team}/{column}
place_piece(b, team, col) == AfterPlay(play_piece(b, team, col))

\* GET /12/random-board
random_board_req(b) == Rendered(random_board(b))

(***************************************************************************)
(* The state machines: Spec calls the Board methods one by one, and        *)
(* SpecHandlers sends requests to the handlers.                            *)
(***************************************************************************)
Self == [grid |-> grid, winner |-> winner, finished |-> finished, rng |-> rng]

Assign(b) ==
    /\ grid' = b.grid
    /\ winner' = b.winner
    /\ finished' = b.finished
    /\ rng' = b.rng

Call(op, team, col, status, body) ==
    [op |-> op, team |-> team, col |-> col, status |-> status, body |-> body]

\* Number of pieces in the playable area.
PieceCount(b) ==
    Cardinality({i \in DOMAIN b.grid : b.grid[i] \in {"Cookie", "Milk"}})

\* Number of pieces in a playable column.
Height(b, col) ==
    Cardinality({row \in 0..(HEIGHT - 2) : has_piece(b, row, col)})

\* Boards with more than MaxPieces pieces are explored only under this
\* staircase: at most col pieces in column col.
StairCap == <<1, 2, 3, 4>>

UnderStair(b) == \A col \in 1..4 : Height(b, col) <= StairCap[col]

\* create_milk_limiter(): RateLimiter::builder().initial(5).max(5)
MILK_INITIAL == 5
MILK_MAX == 5

create_milk_limiter == MILK_INITIAL

\* No /2 request has been sent.
NoQuery == [op |-> "", from |-> << >>, arg |-> << >>, body |-> << >>]

\* The tasks that serve requests, and a task that serves none.
Tasks == 1..NumTasks

IdleTask ==
    [op |-> "", team |-> "", col |-> 0, pc |-> 0, row |-> 0,
     before |-> new, status |-> OK, body |-> << >>]

\* No request is being served: Init of the specifications in which every
\* call is one step.
NoRequests ==
    /\ mutex = 0
    /\ task = [t \in Tasks |-> IdleTask]
    /\ limiter = create_milk_limiter
    /\ query = NoQuery

Init ==
    /\ grid = new.grid
    /\ winner = new.winner
    /\ finished = new.finished
    /\ rng = new.rng
    /\ last = Call("new", "", 0, OK, << >>)
    /\ shown = << >>
    /\ NoRequests

PlayPiece(team, col) ==
    \E r \in {play_piece(Self, team, col)} :
        /\ r.status = OK => PieceCount(r.board) <= MaxPieces
        /\ Assign(r.board)
        /\ last' = Call("play_piece", team, col, r.status, r.body)
        /\ UNCHANGED <<shown, limiter, query, mutex, task>>

CheckWinner ==
    \E b \in {check_winner(Self)} :
        /\ Assign(b)
        /\ last' = Call("check_winner", "", 0, OK, << >>)
        /\ UNCHANGED <<shown, limiter, query, mutex, task>>

RandomBoard ==
    /\ rng < 16 * MaxRandomCalls
    /\ \E b \in {random_board(Self)} :
        /\ Assign(b)
        /\ last' = Call("random_board", "", 0, OK, << >>)
        /\ UNCHANGED <<shown, limiter, query, mutex, task>>

Reset ==
    \E b \in {reset(Self)} :
        /\ Assign(b)
        /\ last' = Call("reset", "", 0, OK, << >>)
        /\ UNCHANGED <<shown, limiter, query, mutex, task>>

RenderBoard ==
    /\ UNCHANGED <<grid, winner, finished, rng, shown, limiter, query, mutex, task>>
    /\ last' = Call("render", "", 0, OK, Render(Self))

Next ==
    \/ \E team \in TeamInputs, col \in ColInputs : PlayPiece(team, col)
    \/ CheckWinner
    \/ RandomBoard
    \/ Reset
    \/ RenderBoard

Spec == Init /\ [][Next]_vars

\* A handler's step: the board it leaves and the response it sends.
Respond(op, team, col, r) ==
    /\ Assign(r.board)
    /\ last' = Call(op, team, col, r.status, r.body)
    /\ shown' = IF r.status = OK THEN r.body ELSE shown
    /\ UNCHANGED <<mutex, task, limiter, query>>

BoardReq ==
    \E r \in {board(Self)} : Respond("board", "", 0, r)

ResetReq ==
    \E r \in {reset_board(Self)} : Respond("reset_board", "", 0, r)

PlaceReq(team, col) ==
    \E r \in {place_piece(Self, team, col)} :
        /\ r.status = OK => PieceCount(r.board) <= MaxPieces
        /\ Respond("place_piece", team, col, r)

RandomReq ==
    /\ rng < 16 * MaxRandomCalls
    /\ \E r \in {random_board_req(Self)} : Respond("random_board", "", 0, r)

NextHandlers ==
    \/ BoardReq
    \/ ResetReq
    \/ \E team \in TeamInputs, col \in ColInputs : PlaceReq(team, col)
    \/ RandomReq

SpecHandlers == Init /\ [][NextHandlers]_vars

\* Longer games: valid placements only, on the boards under the staircase.
GamePlace(team, col) ==
    \E r \in {place_piece(Self, team, col)} :
        /\ r.status = OK => UnderStair(r.board)
        /\ Respond("place_piece", team, col, r)

NextGame ==
    \/ \E team \in {"cookie", "milk"}, col \in 1..4 : GamePlace(team, col)
    \/ BoardReq
    \/ ResetReq
    \/ RandomReq

SpecGame == Init /\ [][NextGame]_vars

\* check_winner and random_board on every full board.  Sixteen play_piece
\* calls with no check_winner in between, the last one into column 4, fill
\* the playable area with any sixteen tokens.
InitLines ==
    \E f \in [0..15 -> {"Cookie", "Milk"}] :
        /\ grid = [i \in 0..(WIDTH * HEIGHT - 1) |->
                      IF (i % WIDTH) \in 1..(WIDTH - 2) /\ i \div WIDTH < HEIGHT - 1
                      THEN f[(i \div WIDTH) * (WIDTH - 2) + (i % WIDTH) - 1]
                      ELSE "Wall"]
        /\ winner = None
        /\ finished = TRUE
        /\ rng = 0
        /\ last = Call("play_piece",
                       IF f[WIDTH - 3] = "Cookie" THEN "cookie" ELSE "milk",
                       4, OK, << >>)
        /\ shown = << >>
        /\ NoRequests

NextLines ==
    \/ CheckWinner
    \/ RandomBoard

SpecLines == InitLines /\ [][NextLines]_vars

\* SpecEndgame starts one piece before the board is full: rows 2 and 3 hold
\* a fixed pattern without a line, as do columns 1 and 2 of row 1; the other
\* cells of rows 0 and 1 hold any pieces that make no line, and one cell of
\* row 0 is still Empty.  The state is the one left by
\* the placements that built the board, the last of them on top of a full
\* column.  Methods and place requests are then called with every input.
EndgameRow2 == <<"Milk", "Cookie", "Milk", "Cookie">>
EndgameRow3 == <<"Cookie", "Milk", "Cookie", "Milk">>

EndgameGrid(hole, top) ==
    [i \in 0..(WIDTH * HEIGHT - 1) |->
        IF (i % WIDTH) \notin 1..(WIDTH - 2) \/ i \div WIDTH = HEIGHT - 1 THEN "Wall"
        ELSE IF i \div WIDTH = 3 THEN EndgameRow3[i % WIDTH]
        ELSE IF i \div WIDTH = 2 THEN EndgameRow2[i % WIDTH]
        ELSE IF i \in {WIDTH + 1, WIDTH + 2} THEN "Cookie"
        ELSE IF i = hole THEN "Empty"
        ELSE top[i]]

InitEndgame ==
    \E hole \in 1..(WIDTH - 2) :
        \E top \in [(1..(WIDTH - 2)) \cup ((WIDTH + 3)..(2 * WIDTH - 2)) -> {"Cookie", "Milk"}] :
            \E b \in {[grid |-> EndgameGrid(hole, top), winner |-> None,
                       finished |-> FALSE, rng |-> 0]} :
                /\ check_winner(b) = b
                /\ grid = b.grid
                /\ winner = b.winner
                /\ finished = b.finished
                /\ rng = b.rng
                /\ last = Call("play_piece",
                               IF b.grid[1 + (hole % 2)] = "Cookie" THEN "cookie" ELSE "milk",
                               1 + (hole % 2), OK, << >>)
                /\ shown = << >>
                /\ NoRequests

EndPlay(team, col) ==
    \E r \in {play_piece(Self, team, col)} :
        /\ Assign(r.board)
        /\ last' = Call("play_piece", team, col, r.status, r.body)
        /\ UNCHANGED <<shown, limiter, query, mutex, task>>

EndPlace(team, col) ==
    \E r \in {place_piece(Self, team, col)} :
        Respond("place_piece", team, col, r)

NextEndgame ==
    \/ \E team \in TeamInputs, col \in ColInputs : EndPlay(team, col)
    \/ \E team \in TeamInputs, col \in ColInputs : EndPlace(team, col)
    \/ CheckWinner
    \/ RenderBoard
    \/ BoardReq

SpecEndgame == InitEndgame /\ [][NextEndgame]_vars

(***************************************************************************)
(* SpecConc: NumTasks tasks serve requests at the same time.  A handler is *)
(* the sequence of its steps; a task takes one step at a time and any task *)
(* may take the next step, so the steps of different requests interleave   *)
(* in every way the Mutex allows.  Only lock() waits for the Mutex: the    *)
(* other steps read and write the board without asking who holds it.       *)
(* The guard is dropped when the handler's body ends, after the response   *)
(* text has been built, and the response is sent after that.  The calls of *)
(* this specification are recorded in task, not in last and shown.         *)
(***************************************************************************)
ConcTeams == {"cookie", "milk"}
ConcCols == {0, 1, 12}

\* place_piece taking the Mutex only after the row loop has found its row.
StepsLockAfterFind(op) ==
    CASE op = "board" -> << "lock", "render", "unlock", "return" >>
      [] op = "reset_board" -> << "lock", "reset", "render", "unlock", "return" >>
      [] op = "place_piece" ->
            << "find_row", "lock", "set_piece", "check_winner", "render",
               "unlock", "return" >>
      [] op = "random_board" ->
            << "lock", "clear_winner" >>
            \o [k \in 1..((HEIGHT - 1) * (WIDTH - 2)) |-> "fill"]
            \o << "check_winner", "render", "unlock", "return" >>

\* place_piece releasing the Mutex between play_piece and check_winner.
StepsUnlockedCheck(op) ==
    CASE op = "board" -> << "lock", "render", "unlock", "return" >>
      [] op = "reset_board" -> << "lock", "reset", "render", "unlock", "return" >>
      [] op = "place_piece" ->
            << "lock", "find_row", "set_piece", "unlock", "lock",
               "check_winner", "render", "unlock", "return" >>
      [] op = "random_board" ->
            << "lock", "clear_winner" >>
            \o [k \in 1..((HEIGHT - 1) * (WIDTH - 2)) |-> "fill"]
            \o << "check_winner", "render", "unlock", "return" >>

\* The steps of each handler, in order.
Steps(op) ==
    CASE op = "board" -> << "lock", "render", "unlock", "return" >>
      [] op = "reset_board" -> << "lock", "reset", "render", "unlock", "return" >>
      [] op = "place_piece" ->
            << "lock", "find_row", "set_piece", "check_winner", "render",
               "unlock", "return" >>
      [] op = "random_board" ->
            << "lock", "clear_winner" >>
            \o [k \in 1..((HEIGHT - 1) * (WIDTH - 2)) |-> "fill"]
            \o << "check_winner", "render", "unlock", "return" >>

\* Task t is about to take step s of its handler.
At(t, s) == task[t].pc > 0 /\ Steps(task[t].op)[task[t].pc] = s

Advance(t) == task' = [task EXCEPT ![t].pc = @ + 1]

\* A request reaches a task that serves none.
Arrive(t, op, team, col) ==
    /\ task[t].pc = 0
    /\ op = "random_board" => rng < 16 * MaxRandomCalls
    /\ task' = [task EXCEPT ![t] = [IdleTask EXCEPT !.op = op, !.team = team,
                                                     !.col = col, !.pc = 1]]
    /\ UNCHANGED <<grid, winner, finished, rng, last, shown, limiter, query, mutex>>

\* The cells (row, col) that the steps of the handlers read or write
\* through has_piece, set_piece and get_piece.  Board::new(): both sides of
\* every row and the whole bottom row.
NewAccesses ==
    {<<row, 0>> : row \in 0..(HEIGHT - 1)}
    \cup {<<row, WIDTH - 1>> : row \in 0..(HEIGHT - 1)}
    \cup {<<HEIGHT - 1, col>> : col \in 0..(WIDTH - 1)}

\* The row loop reading cell (3, col) first, with no check of the column.
PlayAccessesUnchecked(b, team, col) ==
    IF b.finished THEN {} ELSE {<<3, col>>}

\* play_piece: nothing is read unless the board is in play, the column is
\* one of 1..=4 and the team is known; the row loop then reads the cells of
\* the column from row 3 up to the first one that holds no piece.
PlayAccesses(b, team, col) ==
    IF b.finished \/ ~(col \in 1..4) \/ team \notin {"cookie", "milk"}
    THEN {}
    ELSE {<<row, col>> : row \in {r \in 0..3 : \A q \in (r + 1)..3 : has_piece(b, q, col)}}

\* check_winner: the cells of the coords table.
WinnerAccesses == {coords[k][i] : k \in 1..Len(coords), i \in 1..4}

\* Display: every row of 0..HEIGHT and every column of 0..WIDTH.
RenderAccesses == (0..(HEIGHT - 1)) \X (0..(WIDTH - 1))

\* The cells the next step of task t touches.
StepAccesses(t) ==
    LET s == Steps(task[t].op)[task[t].pc]
    IN CASE s = "reset" -> NewAccesses
         [] s = "find_row" -> PlayAccesses(Self, task[t].team, task[t].col)
         [] s = "set_piece" -> {<<task[t].row, task[t].col>>}
         [] s = "fill" -> {<<(task[t].pc - 3) \div (WIDTH - 2),
                             1 + ((task[t].pc - 3) % (WIDTH - 2))>>}
         [] s = "check_winner" -> WinnerAccesses
         [] s = "render" -> RenderAccesses
         [] OTHER -> {}

\* self.grid[row * WIDTH + col] panics when the index is not below
\* WIDTH * HEIGHT.
InGrid(a) == a[1] * WIDTH + a[2] < WIDTH * HEIGHT

\* The Mutex after a task has panicked while it held the guard.
Poisoned == -1

\* A panic of task t: the task ends, and the guard it holds is dropped
\* while panicking, which poisons the Mutex.
Panic(t) ==
    /\ mutex' = IF mutex = t THEN Poisoned ELSE mutex
    /\ task' = [task EXCEPT ![t] = IdleTask]
    /\ UNCHANGED <<grid, winner, finished, rng, last, shown, limiter, query>>

\* A step of task t that touches the grid: it is taken as written when all
\* its indexes are in the grid, and it panics otherwise.
Touch(t, step) ==
    IF \A a \in StepAccesses(t) : InGrid(a) THEN step ELSE Panic(t)

\* A lock() that does not wait for the holder of the Mutex.
LockNoWait(t) ==
    /\ At(t, "lock")
    /\ mutex' = t
    /\ task' = [task EXCEPT ![t].pc = @ + 1, ![t].before = Self]
    /\ UNCHANGED <<grid, winner, finished, rng, last, shown, limiter, query>>

\* board.lock().unwrap(): waits until the Mutex is free and takes it; on a
\* poisoned Mutex lock() is an Err and unwrap() panics.
Lock(t) ==
    /\ At(t, "lock")
    /\ IF mutex = Poisoned
       THEN Panic(t)
       ELSE /\ mutex = 0
            /\ mutex' = t
            /\ task' = [task EXCEPT ![t].pc = @ + 1, ![t].before = Self]
            /\ UNCHANGED <<grid, winner, finished, rng, last, shown, limiter, query>>

ResetStep(t) ==
    /\ At(t, "reset")
    /\ Touch(t, /\ Assign(reset(Self))
                /\ Advance(t)
                /\ UNCHANGED <<last, shown, limiter, query, mutex>>)

\* The row the loop of play_piece stops at: the first row from row 3 up
\* for which has_piece is false.
RECURSIVE FindRow(_, _, _)
FindRow(b, col, row) ==
    IF has_piece(b, row, col) THEN FindRow(b, col, row - 1) ELSE row

\* board.play_piece()...?, up to the has_piece call that finds the free
\* cell: the three checks and the reads of the row loop.  An Err ends the
\* handler's body.
FindStep(t) ==
    /\ At(t, "find_row")
    /\ Touch(t,
         /\ \E r \in {play_piece(Self, task[t].team, task[t].col)} :
               task' = IF r.status = OK
                       THEN [task EXCEPT ![t].pc = @ + 1,
                                         ![t].row = FindRow(Self, task[t].col, 3)]
                       ELSE [task EXCEPT ![t].pc = Len(Steps(task[t].op)) - 1,
                                         ![t].status = r.status,
                                         ![t].body = r.body]
         /\ UNCHANGED <<grid, winner, finished, rng, last, shown, limiter, query, mutex>>)

\* self.set_piece(row, col, piece); return Ok(()) for the row found.
SetStep(t) ==
    /\ At(t, "set_piece")
    /\ Touch(t,
         /\ Assign(set_piece(Self, task[t].row, task[t].col,
                             IF task[t].team = "cookie" THEN "Cookie" ELSE "Milk"))
         /\ Advance(t)
         /\ UNCHANGED <<last, shown, limiter, query, mutex>>)

CheckStep(t) ==
    /\ At(t, "check_winner")
    /\ Touch(t, /\ Assign(check_winner(Self))
                /\ Advance(t)
                /\ UNCHANGED <<last, shown, limiter, query, mutex>>)

ClearStep(t) ==
    /\ At(t, "clear_winner")
    /\ winner' = None
    /\ Advance(t)
    /\ UNCHANGED <<grid, finished, rng, last, shown, limiter, query, mutex>>

\* One turn of the fill loops: the cell of step pc is cell pc - 3.
FillStep(t) ==
    /\ At(t, "fill")
    /\ Touch(t, /\ Assign(FillCell(Self, task[t].pc - 3))
                /\ Advance(t)
                /\ UNCHANGED <<last, shown, limiter, query, mutex>>)

\* format!("{board}")
RenderStep(t) ==
    /\ At(t, "render")
    /\ Touch(t,
         /\ task' = [task EXCEPT ![t].pc = @ + 1, ![t].status = OK,
                                 ![t].body = Render(Self)]
         /\ UNCHANGED <<grid, winner, finished, rng, last, shown, limiter, query, mutex>>)

\* The MutexGuard goes out of scope.
Unlock(t) ==
    /\ At(t, "unlock")
    /\ mutex' = 0
    /\ Advance(t)
    /\ UNCHANGED <<grid, winner, finished, rng, last, shown, limiter, query>>

\* The response task[t].status, task[t].body is sent.
Return(t) ==
    /\ At(t, "return")
    /\ task' = [task EXCEPT ![t] = IdleTask]
    /\ UNCHANGED <<grid, winner, finished, rng, last, shown, limiter, query, mutex>>

NextConc ==
    \E t \in Tasks :
        \/ Arrive(t, "board", "", 0)
        \/ Arrive(t, "reset_board", "", 0)
        \/ \E team \in ConcTeams, col \in ConcCols : Arrive(t, "place_piece", team, col)
        \/ Arrive(t, "random_board", "", 0)
        \/ Lock(t)
        \/ ResetStep(t)
        \/ FindStep(t)
        \/ SetStep(t)
        \/ CheckStep(t)
        \/ ClearStep(t)
        \/ FillStep(t)
        \/ RenderStep(t)
        \/ Unlock(t)
        \/ Return(t)

SpecConc == Init /\ [][NextConc]_vars

(***************************************************************************)
(* SpecMilk: the /9 routes.  milk and refill share one RateLimiter behind  *)
(* a Mutex that each takes for one statement.  The requests follow each    *)
(* other within one refill interval of the limiter: no interval elapses.   *)
(* f32 amounts are kept as written, a conversion as the product it forms.  *)
(***************************************************************************)
TOO_MANY_REQUESTS == 429

ContentTypes == {"none", "text/plain", "application/json"}

\* Option<f32>: << >> for None, << x >> for Some(x).
Amounts == {<< >>, << "1" >>}

\* The request bodies: bytes that are no JSON object, or an object with any
\* of the four fields of Conversion.
MilkBodies ==
    {c \in [json : BOOLEAN, gallons : Amounts, liters : Amounts,
            litres : Amounts, pints : Amounts] :
        ~c.json => (c.gallons = << >> /\ c.liters = << >>
                    /\ c.litres = << >> /\ c.pints = << >>)}

\* limiter.try_acquire(permits) with no interval elapsed: the units are
\* taken if the limiter holds that many.
try_acquire(l, permits) ==
    IF l >= permits THEN [ok |-> TRUE, limiter |-> l - permits]
    ELSE [ok |-> FALSE, limiter |-> l]

\* Conversion::convert and serde_json::to_string of its result.
convert(c) ==
    IF c.gallons # << >> /\ c.liters = << >> /\ c.litres = << >> /\ c.pints = << >>
    THEN [status |-> OK,
          body |-> << "{liters:", c.gallons[1], "*", "LITERS_IN_GALLON", "}" >>]
    ELSE IF c.gallons = << >> /\ c.liters # << >> /\ c.litres = << >> /\ c.pints = << >>
    THEN [status |-> OK,
          body |-> << "{gallons:", c.liters[1], "/", "LITERS_IN_GALLON", "}" >>]
    ELSE IF c.gallons = << >> /\ c.liters = << >> /\ c.litres # << >> /\ c.pints = << >>
    THEN [status |-> OK,
          body |-> << "{pints:", c.litres[1], "*", "PINTS_IN_LITRES", "}" >>]
    ELSE IF c.gallons = << >> /\ c.liters = << >> /\ c.litres = << >> /\ c.pints # << >>
    THEN [status |-> OK,
          body |-> << "{litres:", c.pints[1], "/", "PINTS_IN_LITRES", "}" >>]
    ELSE [status |-> BAD_REQUEST, body |-> << "Invalid units" >>]

\* The rest of milk once a unit has been taken.
Withdrawn(content_type, body) ==
    IF content_type # "application/json"
    THEN [status |-> OK, body |-> << "Milk withdrawn", "\n" >>]
    ELSE IF ~body.json
    THEN [status |-> BAD_REQUEST, body |-> << "Invalid" >>]
    ELSE convert(body)

\* POST /9/milk
milk(l, content_type, body) ==
    IF ~try_acquire(l, 1).ok
    THEN [limiter |-> try_acquire(l, 1).limiter, status |-> TOO_MANY_REQUESTS,
          body |-> << "No milk available", "\n" >>]
    ELSE [limiter |-> try_acquire(l, 1).limiter] @@ Withdrawn(content_type, body)

\* refill that tops up an empty limiter only.
refill_if_empty(l) ==
    [limiter |-> IF l = 0 THEN create_milk_limiter ELSE l,
     status |-> OK, body |-> << >>]

\* POST /9/refill: *limiter.lock().unwrap() = create_milk_limiter()
refill(l) ==
    [limiter |-> create_milk_limiter, status |-> OK, body |-> << >>]

MilkReq(content_type, body) ==
    \E r \in {milk(limiter, content_type, body)} :
        /\ limiter' = r.limiter
        /\ last' = [op |-> "milk", content_type |-> content_type, request |-> body,
                    status |-> r.status, body |-> r.body]
        /\ UNCHANGED <<grid, winner, finished, rng, shown, mutex, task, query>>

RefillReq ==
    \E r \in {refill(limiter)} :
        /\ limiter' = r.limiter
        /\ last' = [op |-> "refill", content_type |-> "none", request |-> << >>,
                    status |-> r.status, body |-> r.body]
        /\ UNCHANGED <<grid, winner, finished, rng, shown, mutex, task, query>>

NextMilk ==
    \/ \E content_type \in ContentTypes, body \in MilkBodies : MilkReq(content_type, body)
    \/ RefillReq

SpecMilk == Init /\ [][NextMilk]_vars

(***************************************************************************)
(* SpecIp: the /2/dest and /2/key routes.  A client sends two addresses,   *)
(* and may send the address it gets back to the other route.  Addresses    *)
(* travel as text: the handlers format them and the Query extractor parses *)
(* them.                                                                   *)
(***************************************************************************)
\* Octets the addresses of the requests are made of.
OctetInputs == {0, 128, 255}

AddrInputs == [1..4 -> OctetInputs]

Digit(d) == << "0", "1", "2", "3", "4", "5", "6", "7", "8", "9" >>[d + 1]

\* u8's Display: decimal, no leading zeros.
OctetText(n) ==
    IF n < 10 THEN << Digit(n) >>
    ELSE IF n < 100 THEN << Digit(n \div 10), Digit(n % 10) >>
    ELSE << Digit(n \div 100), Digit((n \div 10) % 10), Digit(n % 10) >>

\* Ipv4Addr's to_string(): the four octets joined by dots.
to_string(octets) ==
    OctetText(octets[1]) \o << "." >> \o OctetText(octets[2]) \o << "." >>
    \o OctetText(octets[3]) \o << "." >> \o OctetText(octets[4])

DigitValue(c) == CHOOSE d \in 0..9 : Digit(d) = c

\* Ipv4Addr's FromStr, as Query applies it to a parameter: text read left
\* to right, acc the octets complete so far, cur the octet being read.
RECURSIVE ParseFrom(_, _, _, _)
ParseFrom(text, i, acc, cur) ==
    IF i > Len(text) THEN Append(acc, cur)
    ELSE IF text[i] = "." THEN ParseFrom(text, i + 1, Append(acc, cur), 0)
    ELSE ParseFrom(text, i + 1, acc, cur * 10 + DigitValue(text[i]))

parse(text) == ParseFrom(text, 1, << >>, 0)

\* u8::wrapping_add and u8::wrapping_sub
wrapping_add(x, y) == (x + y) % 256

wrapping_sub(x, y) == (x + 256 - y) % 256

\* ipv4_dest adding without wrapping: the octet saturates at 255.
ipv4_dest_saturating(from, key) ==
    to_string([i \in 1..4 |-> IF from[i] + key[i] > 255 THEN 255 ELSE from[i] + key[i]])

\* GET /2/dest?from=..&key=..
ipv4_dest(from, key) ==
    to_string([i \in 1..4 |-> wrapping_add(from[i], key[i])])

\* GET /2/key?from=..&to=..
ipv4_key(from, to) ==
    to_string([i \in 1..4 |-> wrapping_sub(to[i], from[i])])

\* query.op is the list of routes called so far, query.arg the second
\* address of the first call, query.body the text of the last response.
InitIp == Init

DestFirst(from, key) ==
    /\ query' = [op |-> "dest", from |-> from, arg |-> key,
                 body |-> ipv4_dest(parse(to_string(from)), parse(to_string(key)))]
    /\ UNCHANGED <<grid, winner, finished, rng, last, shown, mutex, task, limiter>>

KeyFirst(from, to) ==
    /\ query' = [op |-> "key", from |-> from, arg |-> to,
                 body |-> ipv4_key(parse(to_string(from)), parse(to_string(to)))]
    /\ UNCHANGED <<grid, winner, finished, rng, last, shown, mutex, task, limiter>>

\* The destination received is sent to /2/key with the same from.
KeyOfDest ==
    /\ query.op = "dest"
    /\ query' = [query EXCEPT !.op = "dest,key",
                              !.body = ipv4_key(parse(to_string(query.from)),
                                                parse(query.body))]
    /\ UNCHANGED <<grid, winner, finished, rng, last, shown, mutex, task, limiter>>

\* The key received is sent to /2/dest with the same from.
DestOfKey ==
    /\ query.op = "key"
    /\ query' = [query EXCEPT !.op = "key,dest",
                              !.body = ipv4_dest(parse(to_string(query.from)),
                                                 parse(query.body))]
    /\ UNCHANGED <<grid, winner, finished, rng, last, shown, mutex, task, limiter>>

NextIp ==
    \/ query.op = "" /\ \E from \in AddrInputs, key \in AddrInputs : DestFirst(from, key)
    \/ query.op = "" /\ \E from \in AddrInputs, to \in AddrInputs : KeyFirst(from, to)
    \/ KeyOfDest
    \/ DestOfKey

SpecIp == InitIp /\ [][NextIp]_vars

(***************************************************************************)
(* SpecFill: whole games from the fresh board to the full one.  The teams  *)
(* place in any column and in any order, but each cell gets the token it   *)
(* has on a fixed full board without a line, so that no game ends before   *)
(* the board is full.                                                      *)
(***************************************************************************)
\* The full board the games fill: the rows from the top.
FillPlan ==
    << <<"Cookie", "Milk", "Cookie", "Cookie">>,
       <<"Milk", "Cookie", "Milk", "Cookie">>,
       <<"Milk", "Cookie", "Cookie", "Cookie">>,
       <<"Cookie", "Milk", "Milk", "Milk">> >>

OnPlan(b) ==
    \A row \in 0..(HEIGHT - 2), col \in 1..(WIDTH - 2) :
        has_piece(b, row, col) => get_piece(b, row, col) = FillPlan[row + 1][col]

FillPlace(team, col) ==
    \E r \in {place_piece(Self, team, col)} :
        /\ r.status = OK => OnPlan(r.board)
        /\ Respond("place_piece", team, col, r)

NextFill ==
    \/ \E team \in {"cookie", "milk"}, col \in 1..4 : FillPlace(team, col)
    \/ BoardReq
    \/ ResetReq
    \/ RandomReq

SpecFill == Init /\ [][NextFill]_vars

(***************************************************************************)
(* Properties.                                                             *)
(***************************************************************************)
Row(i) == i \div WIDTH
Col(i) == i % WIDTH

Border(i) == Col(i) = 0 \/ Col(i) = 5 \/ Row(i) = 4

Cells == 0..29

Tokens == {"Cookie", "Milk"}

\* The token a recognized team string stands for.
TokenOf(team) == IF team = "cookie" THEN "Cookie" ELSE "Milk"

\* The ten lines of the playable area in the order of the scan: rows 0..3,
\* columns 1..4, the descending diagonal, the ascending diagonal.
LineOrder ==
    [k \in 1..10 |->
        IF k <= 4 THEN {<<k - 1, c>> : c \in 1..4}
        ELSE IF k <= 8 THEN {<<r, k - 4>> : r \in 0..3}
        ELSE IF k = 9 THEN {<<d, d + 1>> : d \in 0..3}
        ELSE {<<3 - d, d + 1>> : d \in 0..3}]

Uniform(g, k, t) == \A p \in LineOrder[k] : g[p[1] * 6 + p[2]] = t

LineOf(g, k) == \E t \in Tokens : Uniform(g, k, t)

HasLine(g) == \E k \in 1..10 : LineOf(g, k)

FirstLine(g) == CHOOSE k \in 1..10 : LineOf(g, k) /\ \A j \in 1..(k - 1) : ~LineOf(g, j)

FirstLineToken(g) == CHOOSE t \in Tokens : Uniform(g, FirstLine(g), t)

BoardUnchanged == UNCHANGED <<grid, winner, finished, rng>>

\* C1: after new() and after reset() from any state, the border cells
\* (column 0, column 5, row 4) are Wall, every other cell is Empty,
\* finished is false and winner is None.
C1_FreshBoard ==
    last.op \in {"new", "reset"} =>
        /\ \A i \in Cells : grid[i] = IF Border(i) THEN "Wall" ELSE "Empty"
        /\ finished = FALSE
        /\ winner = None

\* reset has been called.
C1_Witness ==
    /\ last.op = "reset"
    /\ grid[3 * 6 + 1] = "Empty"
    /\ rng = 0

\* C2: in every reachable state the cells of column 0, column 5 and row 4
\* are Wall and no cell of the playable area is Wall.
C2_Walls == \A i \in Cells : (grid[i] = "Wall") <=> Border(i)

\* A piece has been placed in column 1 and in column 4, next to the walls.
C2_Witness ==
    /\ last.op = "play_piece"
    /\ grid[3 * 6 + 1] \in Tokens
    /\ grid[3 * 6 + 4] \in Tokens

\* C3: a successful place(team, c) writes the team's token into cell (r, c)
\* where r is the largest row of 0..3 whose cell in column c is Empty, and
\* every playable cell of column c below row r holds a Cookie or a Milk.
C3_Gravity ==
    [][(last'.op = "play_piece" /\ last'.status = OK) =>
          LET c == last'.col
              empty == {r \in 0..3 : grid[r * 6 + c] = "Empty"}
          IN /\ c \in 1..4
             /\ ~finished
             /\ empty # {}
             /\ \E r \in empty :
                   /\ \A r2 \in empty : r2 <= r
                   /\ grid'[r * 6 + c] = TokenOf(last'.team)
                   /\ \A r2 \in (r + 1)..3 : grid[r2 * 6 + c] \in Tokens
       ]_vars

\* A piece has landed in row 1 of a column, on top of two others.
C3_Witness ==
    /\ last.op = "play_piece"
    /\ last.status = OK
    /\ grid[1 * 6 + last.col] \in Tokens
    /\ grid[0 * 6 + last.col] = "Empty"

\* C4: a place request that returns an error leaves all 30 cells, winner,
\* finished and the generator state as they were.
C4_RejectedPlaceKeepsBoard ==
    [][(last'.op = "place_piece" /\ last'.status # OK) => BoardUnchanged]_vars

\* A placement has been rejected because the column is full, on a board
\* that is not finished.
C4_Witness ==
    /\ last.op = "place_piece"
    /\ last.status = SERVICE_UNAVAILABLE
    /\ last.col \in 1..4
    /\ ~finished

\* C5: if finished is true before a play_piece, check_winner, random_board
\* or render call then it is true after the call; only reset makes it false.
C5_FinishedMonotonic ==
    [][(finished /\ last'.op # "reset") => finished']_vars

\* check_winner has been called on a drawn board (the second random fill).
C5_Witness ==
    /\ last.op = "check_winner"
    /\ finished
    /\ winner = None
    /\ rng = 32

\* C6: whenever finished is true every place request, for any team and
\* column, fails with 503 and a payload equal to the rendering of the
\* current board, which is the body of the last successful response; the
\* board stays as it is, and finished becomes false only by a reset.
C6_FinishedRejectsPlace ==
    [][/\ (finished /\ last'.op = "place_piece") =>
              /\ last'.status = SERVICE_UNAVAILABLE
              /\ last'.body = Render(Self)
              /\ last'.body = shown
              /\ BoardUnchanged
       /\ (finished /\ ~finished') => last'.op = "reset_board"
      ]_vars

\* A placement with an unknown team has been rejected on a drawn board.
C6_Witness ==
    /\ last.op = "place_piece"
    /\ last.team = "eggnog"
    /\ last.status = SERVICE_UNAVAILABLE
    /\ finished
    /\ winner = None

\* C7: on a board that is not finished, a place request with a column
\* outside 1..4 or a team other than "cookie" and "milk" fails with 400 and
\* an empty payload and changes nothing.
C7_BadInput ==
    [][(/\ ~finished
        /\ last'.op = "place_piece"
        /\ (last'.col \notin 1..4 \/ last'.team \notin {"cookie", "milk"})) =>
          /\ last'.status = BAD_REQUEST
          /\ last'.body = << >>
          /\ BoardUnchanged
      ]_vars

\* Team "eggnog" has been rejected for a playable column of a board in play.
C7_Witness ==
    /\ last.op = "place_piece"
    /\ last.team = "eggnog"
    /\ last.col \in 1..4
    /\ last.status = BAD_REQUEST
    /\ grid[3 * 6 + last.col] \in Tokens

\* C8: between requests, if one of the ten lines holds four Cookie or four
\* Milk cells then winner is Some and finished is true.
C8_LineIsReported == HasLine(grid) => (winner # None /\ finished)

\* A placement has completed the ascending diagonal, and nothing else,
\* before the board is full.
C8_Witness ==
    /\ last.op = "place_piece"
    /\ last.status = OK
    /\ LineOf(grid, 10)
    /\ \A k \in 1..9 : ~LineOf(grid, k)
    /\ \E i \in Cells : grid[i] = "Empty"
    /\ winner # None

\* C9: when check_winner runs with winner = None on a grid with uniform
\* lines, winner becomes the token of the first of them in the order row 0
\* to row 3, column 1 to column 4, descending diagonal, ascending diagonal;
\* random_board runs it so on the grid it has filled.
C9_FirstLineWins ==
    [][/\ (last'.op = "check_winner" /\ winner = None /\ HasLine(grid)) =>
              winner' = FirstLineToken(grid)
       /\ (last'.op = "random_board" /\ HasLine(grid')) =>
              winner' = FirstLineToken(grid')
      ]_vars

\* check_winner has reported Milk for the descending diagonal on a board
\* whose ascending diagonal is Cookie.
C9_Witness ==
    /\ last.op = "check_winner"
    /\ Uniform(grid, 9, "Milk")
    /\ Uniform(grid, 10, "Cookie")
    /\ \A k \in 1..8 : ~LineOf(grid, k)
    /\ winner = "Milk"

\* C10: a check_winner call made when winner is already Some, or right
\* after another check_winner call, changes no field of the board.
C10_CheckWinnerIdempotent ==
    [][(/\ last'.op = "check_winner"
        /\ (winner # None \/ last.op = "check_winner")) => BoardUnchanged
      ]_vars

\* check_winner has been called after the first random fill, which had
\* already recorded the winner.
C10_Witness ==
    /\ last.op = "check_winner"
    /\ winner = "Cookie"
    /\ rng = 16

\* The glyph of each piece: white square, black square, cookie, glass of milk.
GlyphTable ==
    [p \in {"Wall", "Empty", "Cookie", "Milk"} |->
        IF p = "Wall" THEN "U+2B1C"
        ELSE IF p = "Empty" THEN "U+2B1B"
        ELSE IF p = "Cookie" THEN "U+1F36A"
        ELSE "U+1F95B"]

\* A row of a fresh board and its bottom row, as text.
OpenRowText == << "U+2B1C", "U+2B1B", "U+2B1B", "U+2B1B", "U+2B1B", "U+2B1C", "\n" >>
WallRowText == << "U+2B1C", "U+2B1C", "U+2B1C", "U+2B1C", "U+2B1C", "U+2B1C", "\n" >>

FreshText == OpenRowText \o OpenRowText \o OpenRowText \o OpenRowText \o WallRowText

\* What follows the five grid lines in a rendered text.
Trailer(text) == SubSeq(text, 36, Len(text))

Full(g) == \A i \in Cells : g[i] # "Empty"

\* C11: the text of render() starts with 5 lines of 6 glyphs and a newline,
\* the glyph of cell (row, col) being that of the piece it holds; for a
\* fresh board the text is four lines of an open row and the wall row, and
\* nothing else.
C11_RenderGrid ==
    last.op = "render" =>
        /\ Len(last.body) >= 35
        /\ \A row \in 0..4 :
              /\ last.body[row * 7 + 7] = "\n"
              /\ \A col \in 0..5 :
                    last.body[row * 7 + col + 1] = GlyphTable[grid[row * 6 + col]]
        /\ (\A i \in Cells : grid[i] \in {"Wall", "Empty"}) => last.body = FreshText

\* A board holding both a Cookie and a Milk has been rendered.
C11_Witness ==
    /\ last.op = "render"
    /\ \E i \in Cells : grid[i] = "Cookie"
    /\ \E i \in Cells : grid[i] = "Milk"
    /\ \E i \in Cells : grid[i] = "Empty"

\* C12 as claimed: when winner is Some(token) the appended line names the
\* token by its debug name, "Cookie wins!" or "Milk wins!".
C12_DebugNameClaimed ==
    (last.op = "place_piece" /\ last.status = OK /\ winner # None) =>
        Trailer(last.body) = << winner, " wins!", "\n" >>

\* C12 as amended: when winner is Some(token) the appended line is the
\* glyph of the token followed by " wins!"; Piece's Debug writes the glyph.
C12_WinnerGlyph ==
    (last.op = "place_piece" /\ last.status = OK /\ winner # None) =>
        Trailer(last.body) = << GlyphTable[winner], " wins!", "\n" >>

\* The fourth Cookie of column 1 has been placed and Cookie has won.
C12_Witness ==
    /\ last.op = "place_piece"
    /\ last.status = OK
    /\ last.team = "cookie"
    /\ last.col = 1
    /\ \A r \in 0..3 : grid[r * 6 + 1] = "Cookie"
    /\ winner = "Cookie"

\* C13: render() appends one line exactly when finished is true: the glyph
\* of the winner and " wins!" when winner is Some, "No winner." when winner
\* is None; when finished is false the text is the five grid lines only.
C13_TrailingLine ==
    last.op = "render" =>
        Trailer(last.body) =
            IF ~finished THEN << >>
            ELSE IF winner # None THEN << GlyphTable[winner], " wins!", "\n" >>
            ELSE << "No winner.", "\n" >>

\* A drawn board has been rendered.
C13_Witness ==
    /\ last.op = "render"
    /\ finished
    /\ winner = None

\* The grid of a fresh board.
FreshGrid == [i \in Cells |-> IF Border(i) THEN "Wall" ELSE "Empty"]

\* A grid given by its four playable rows, "C" for Cookie and "M" for Milk.
GridOf(rows) ==
    [i \in Cells |->
        IF Border(i) THEN "Wall"
        ELSE IF rows[Row(i) + 1][Col(i)] = "C" THEN "Cookie" ELSE "Milk"]

\* The two grids asserted by day5_tests::test_random_board.
Golden1 ==
    GridOf(<< <<"C", "C", "C", "C">>,
              <<"M", "C", "C", "M">>,
              <<"M", "M", "M", "M">>,
              <<"C", "M", "C", "M">> >>)

Golden2 ==
    GridOf(<< <<"C", "M", "C", "C">>,
              <<"M", "C", "M", "C">>,
              <<"M", "C", "C", "C">>,
              <<"C", "M", "M", "M">> >>)

\* The grid of the k-th fill since the generator was seeded: cell (row, col)
\* takes draw 16 * (k - 1) + 4 * row + (col - 1) of the stream.
FillGrid(k) ==
    [i \in Cells |->
        IF Border(i) THEN "Wall"
        ELSE IF RngBits[16 * (k - 1) + 4 * Row(i) + Col(i)] THEN "Cookie"
        ELSE "Milk"]

\* The winner of the k-th fill.
FillWinner(k) ==
    IF HasLine(FillGrid(k)) THEN FirstLineToken(FillGrid(k)) ELSE None

\* C14: reset() from any reachable state gives the state of new() in every
\* field, generator position included, and the request that follows a reset
\* is answered as on a new board: a randomize gives the first golden grid,
\* a valid place puts its token at the bottom of an otherwise empty board.
C14_ResetEqualsNew ==
    [][ /\ last'.op = "reset_board" =>
              /\ grid' = FreshGrid
              /\ winner' = None
              /\ finished' = FALSE
              /\ rng' = 0
              /\ last'.status = OK
              /\ last'.body = FreshText
        /\ (last.op = "reset_board" /\ last'.op = "random_board") =>
              /\ grid' = Golden1
              /\ winner' = "Cookie"
              /\ rng' = 16
        /\ (last.op = "reset_board" /\ last'.op = "place_piece"
                /\ last'.status = OK) =>
              /\ grid' = [FreshGrid EXCEPT ![3 * 6 + last'.col] = TokenOf(last'.team)]
              /\ winner' = None
              /\ finished' = FALSE
              /\ rng' = 0
      ]_vars

\* A reset request has been answered.
C14_Witness ==
    /\ last.op = "reset_board"
    /\ last.status = OK
    /\ grid = FreshGrid
    /\ rng = 0

\* C15: the grid and the winner left by the k-th randomize call since the
\* last new/reset depend on k alone, whatever place, check_winner and render
\* calls were made in between; the first two are the golden grids, the first
\* won by Cookie and the second without winner.
C15_RandomizeDependsOnCount ==
    last.op = "random_board" =>
        /\ rng % 16 = 0
        /\ grid = FillGrid(rng \div 16)
        /\ winner = FillWinner(rng \div 16)
        /\ rng = 16 => (grid = Golden1 /\ winner = "Cookie")
        /\ rng = 32 => (grid = Golden2 /\ winner = None)

\* The second randomize call since the last reset has returned.
C15_Witness ==
    /\ last.op = "random_board"
    /\ rng = 32
    /\ grid = Golden2

\* C16: randomize() draws exactly 16 booleans, writes draw 4 * row + col - 1
\* to cell (row, col) of rows 0..3 and columns 1..4, Cookie for true and Milk
\* for false, leaves the border cells unchanged, and leaves as winner the
\* result of one check_winner run on the filled grid with winner None: the
\* token of the first uniform line, or None when there is none.
C16_RandomizeFill ==
    [][ last'.op = "random_board" =>
          /\ rng' = rng + 16
          /\ \A i \in Cells :
                grid'[i] = IF Border(i) THEN grid[i]
                           ELSE IF RngBits[rng + 4 * Row(i) + Col(i)] THEN "Cookie"
                           ELSE "Milk"
          /\ winner' = IF HasLine(grid') THEN FirstLineToken(grid') ELSE None
          /\ finished' = TRUE
      ]_vars

\* A randomize call on a board won by Cookie has left a board without winner.
C16_Witness ==
    /\ last.op = "random_board"
    /\ rng = 32
    /\ winner = None
    /\ finished

\* The text of a board with grid g, winner w and finished flag f.
TextOf(g, w, f) ==
    [p \in 1..35 |->
        IF (p - 1) % 7 = 6 THEN "\n"
        ELSE GlyphTable[g[((p - 1) \div 7) * 6 + ((p - 1) % 7)]]]
    \o (IF w # None THEN << GlyphTable[w], " wins!", "\n" >>
        ELSE IF f THEN << "No winner.", "\n" >>
        ELSE << >>)

ColumnFull(g, col) == \A row \in 0..3 : g[row * 6 + col] \in Tokens

\* C20: on a board that is not finished, placing a cookie or a milk into a
\* column of 1..4 whose four playable cells all hold pieces is answered 503
\* with the text of the current board, and changes nothing.  (A team other
\* than cookie and milk is rejected with 400 before the column is searched.)
C20_FullColumnRejected ==
    [][ (/\ last'.op = "place_piece"
         /\ ~finished
         /\ last'.col \in 1..4
         /\ last'.team \in {"cookie", "milk"}
         /\ ColumnFull(grid, last'.col)) =>
            /\ last'.status = SERVICE_UNAVAILABLE
            /\ last'.body = TextOf(grid, winner, finished)
            /\ Len(last'.body) = 35
            /\ BoardUnchanged
            /\ shown' = shown
      ]_vars

\* A piece has been refused by a full column of a board still in play.
C20_Witness ==
    /\ last.op = "place_piece"
    /\ last.status = SERVICE_UNAVAILABLE
    /\ last.col \in 1..4
    /\ ColumnFull(grid, last.col)
    /\ ~finished
    /\ winner = None

\* C17: when the last Empty playable cell is filled and none of the ten
\* lines is uniform, the board is a draw: finished is true and winner is
\* None from then on, a rendering of it ends with the line "No winner.",
\* and a place call on it is rejected with 503 and the text of the board,
\* leaving the board as it is.
C17_Draw ==
    [][ /\ (Full(grid') /\ ~HasLine(grid')) =>
              /\ finished'
              /\ winner' = None
              /\ last'.op \in {"render", "board"} =>
                    /\ last'.body = TextOf(grid', None, TRUE)
                    /\ Trailer(last'.body) = << "No winner.", "\n" >>
              /\ (last'.op = "place_piece" /\ last'.status = OK) =>
                    Trailer(last'.body) = << "No winner.", "\n" >>
        /\ (Full(grid) /\ ~HasLine(grid)
                /\ last'.op \in {"play_piece", "place_piece"}) =>
              /\ last'.status = SERVICE_UNAVAILABLE
              /\ Trailer(last'.body) = << "No winner.", "\n" >>
              /\ BoardUnchanged
      ]_vars

\* A place request has been rejected by a drawn board.
C17_Witness ==
    /\ last.op = "place_piece"
    /\ last.status = SERVICE_UNAVAILABLE
    /\ Full(grid)
    /\ ~HasLine(grid)
    /\ finished
    /\ winner = None
    /\ Trailer(shown) = << "No winner.", "\n" >>

\* C19: a successful play_piece changes exactly one cell, a cell of the
\* chosen column, from Empty to the token of the team; it leaves winner and
\* the generator as they are, even when the piece completes a line, and
\* sets finished exactly when no Empty cell is left.
C19_PlayPieceFrame ==
    [][ (last'.op = "play_piece" /\ last'.status = OK) =>
          /\ \E i \in Cells :
                /\ Col(i) = last'.col
                /\ grid[i] = "Empty"
                /\ grid'[i] = TokenOf(last'.team)
                /\ \A j \in Cells \ {i} : grid'[j] = grid[j]
          /\ winner' = winner
          /\ rng' = rng
          /\ finished' = Full(grid')
      ]_vars

\* play_piece has put the last piece on the board and completed a line with
\* it: the board is finished by the draw rule and has no winner yet.
C19_Witness ==
    /\ last.op = "play_piece"
    /\ last.status = OK
    /\ Full(grid)
    /\ HasLine(grid)
    /\ winner = None
    /\ finished

\* Task t has taken the Mutex for its request and has not yet let it go for
\* the last time.
InOperation(t) ==
    /\ task[t].pc > 1
    /\ task[t].pc < Len(Steps(task[t].op))

\* The result of a handler run in one piece on board b.
Handler(op, b, team, col) ==
    CASE op = "board" -> board(b)
      [] op = "reset_board" -> reset_board(b)
      [] op = "place_piece" -> place_piece(b, team, col)
      [] op = "random_board" -> random_board_req(b)

\* C18: a request holds the Mutex from its lock() to the end of its
\* operation, so at most one request is inside its operation at a time and
\* the board it finds is the one the previous operation left; and when it
\* lets the Mutex go, the board and the response are those of the whole
\* handler applied to the board it found.  The executions are thus those of
\* the operations run one after the other in the order of their lock().
C18_Serialized ==
    [][ /\ \A t \in Tasks : InOperation(t)' => mutex' = t
        /\ \A t \in Tasks :
              (At(t, "unlock") /\ task'[t].pc = task[t].pc + 1) =>
                  \E r \in {Handler(task[t].op, task[t].before,
                                    task[t].team, task[t].col)} :
                      /\ Self = r.board
                      /\ task[t].status = r.status
                      /\ task[t].body = r.body
        /\ mutex = 0 => BoardUnchanged
      ]_vars

\* Task 1 has placed the fourth Cookie of column 1 and has not yet run the
\* win check, while task 2 waits for the Mutex to render the board.
C18_Witness ==
    /\ mutex = 1
    /\ task[1].op = "place_piece"
    /\ At(1, "check_winner")
    /\ HasLine(grid)
    /\ winner = None
    /\ task[2].op = "board"
    /\ At(2, "lock")

\* C21: rendering never changes the board: grid, winner, finished and the
\* generator are the same before and after, the text is a function of these
\* alone, and a second rendering with nothing in between gives the same text.
C21_RenderIsPure ==
    [][ last'.op = "board" =>
          /\ BoardUnchanged
          /\ last'.status = OK
          /\ last'.body = TextOf(grid, winner, finished)
          /\ shown' = last'.body
          /\ last.op = "board" => last'.body = last.body
      ]_vars

\* A board won before it was full has been rendered.
C21_Witness ==
    /\ last.op = "board"
    /\ winner # None
    /\ finished
    /\ ~Full(grid)

\* C23: a refill request leaves the limiter with 5 units whatever it held;
\* with no interval elapsing each milk request then takes one unit and is
\* not answered 429 while units are left, and with none left it is answered
\* 429 "No milk available" and takes nothing: exactly 5 requests are served
\* after a refill before the next 429.
C23_RefillRestoresFive ==
    [][ /\ last'.op = "refill" => (limiter' = 5 /\ last'.status = OK)
        /\ last'.op = "milk" =>
              IF limiter > 0
              THEN limiter' = limiter - 1 /\ last'.status # TOO_MANY_REQUESTS
              ELSE /\ limiter' = 0
                   /\ last'.status = TOO_MANY_REQUESTS
                   /\ last'.body = << "No milk available", "\n" >>
        /\ limiter \in 0..5
      ]_vars

\* A refill request has been answered and the limiter holds 5 units.
C23_Witness ==
    /\ last.op = "refill"
    /\ last.status = OK
    /\ limiter = 5

\* The text of an address, octet by octet.
AddrText(a, b, c, d) == to_string(<< a, b, c, d >>)

\* C24: ipv4_dest adds the octets modulo 256 and ipv4_key subtracts them
\* modulo 256, so the key computed from a destination is the key that made
\* it, and the destination computed from a key is the address that made it,
\* also for octets that overflow: 128 + 255 gives 127.
C24_Ipv4RoundTrip ==
    /\ query.op = "dest" =>
          /\ \A i \in 1..4 :
                parse(query.body)[i] =
                    IF query.from[i] + query.arg[i] >= 256
                    THEN query.from[i] + query.arg[i] - 256
                    ELSE query.from[i] + query.arg[i]
          /\ (query.from[1] = 128 /\ query.arg[1] = 255) =>
                SubSeq(query.body, 1, 4) = << "1", "2", "7", "." >>
    /\ query.op = "key" =>
          \A i \in 1..4 :
              parse(query.body)[i] =
                  IF query.arg[i] >= query.from[i]
                  THEN query.arg[i] - query.from[i]
                  ELSE query.arg[i] + 256 - query.from[i]
    /\ query.op \in {"dest,key", "key,dest"} =>
          /\ parse(query.body) = query.arg
          /\ query.body = to_string(query.arg)

\* The key of 128.x.x.x and the destination 127.x.x.x that 255.x.x.x made
\* of it has been computed: 255.x.x.x again.
C24_Witness ==
    /\ query.op = "dest,key"
    /\ query.from[1] = 128
    /\ query.arg[1] = 255
    /\ SubSeq(query.body, 1, 4) = << "2", "5", "5", "." >>

\* C25: set_piece keeps finished monotonic: on a board whose finished flag
\* is true while Empty playable cells remain, a set_piece call (here a turn
\* of the fill loops of random_board) leaves finished true.
C25_SetPieceKeepsFinished ==
    [][ (/\ finished
         /\ ~Full(grid)
         /\ \E t \in Tasks : At(t, "fill") /\ task'[t].pc = task[t].pc + 1)
            => finished'
      ]_vars

\* C26: in every state between two requests, finished is true if and only
\* if winner is Some or no Empty cell is left; winner is never Some while
\* finished is false.
C26_FinishedIffOver ==
    /\ finished <=> (winner # None \/ Full(grid))
    /\ winner # None => finished

\* A place request has won a board that still has Empty cells.
C26_Witness ==
    /\ last.op = "place_piece"
    /\ last.status = OK
    /\ winner # None
    /\ finished
    /\ ~Full(grid)

\* C27: if winner is Some(t) then t is Cookie or Milk and one of the ten
\* lines of the current grid holds four t: the winner is never stale.
C27_WinnerHasLine ==
    winner # None =>
        /\ winner \in Tokens
        /\ \E k \in 1..10 : Uniform(grid, k, winner)

\* The third randomize has replaced a board without winner by one that
\* Cookie wins on a diagonal.
C27_Witness ==
    /\ last.op = "random_board"
    /\ rng = 48
    /\ winner = "Cookie"
    /\ Uniform(grid, 10, "Cookie")

\* C28: with no randomize since the last reset, a place request of team t
\* that makes winner Some makes it Some(t).
C28_PlacerWins ==
    [][ (/\ last'.op = "place_piece"
         /\ last'.status = OK
         /\ rng' = 0
         /\ winner = None
         /\ winner' # None) => winner' = TokenOf(last'.team)
      ]_vars

\* Milk has won by its own placement on a board that was never randomized.
C28_Witness ==
    /\ last.op = "place_piece"
    /\ last.status = OK
    /\ last.team = "milk"
    /\ winner = "Milk"
    /\ rng = 0
    /\ \E i \in Cells : grid[i] = "Cookie"

\* C29: no playable column has a gap: if cell (r, c), r in 0..2 and c in
\* 1..4, holds a Cookie or a Milk then so does every cell below it in the
\* column, down to row 3.
C29_NoGaps ==
    \A r \in 0..2, c \in 1..4 :
        grid[r * 6 + c] \in Tokens =>
            \A q \in (r + 1)..3 : grid[q * 6 + c] \in Tokens

\* Column 4 is full and column 1 is empty after a placement.
C29_Witness ==
    /\ last.op = "place_piece"
    /\ last.status = OK
    /\ \A r \in 0..3 : grid[r * 6 + 4] \in Tokens
    /\ \A r \in 0..3 : grid[r * 6 + 1] = "Empty"
    /\ grid[3 * 6 + 2] \in Tokens
    /\ grid[2 * 6 + 2] = "Empty"

\* The number of playable cells that hold a piece.
Placed(g) == Cardinality({i \in Cells : g[i] \in Tokens})

\* C30: a place request that succeeds adds exactly one piece to a board
\* that is not finished and holds fewer than 16, a request that fails adds
\* none, and only reset takes pieces away; so after k successes on a fresh
\* board there are k pieces and at most 16 requests succeed between two
\* resets.  A cookie or milk placed into a column with a free cell of a
\* board that is not finished succeeds, and the board with 16 pieces is
\* finished: placing on reaches finished within 16 successes.
C30_SixteenPlacements ==
    [][ /\ (last'.op = "place_piece" /\ last'.status = OK) =>
              /\ Placed(grid') = Placed(grid) + 1
              /\ Placed(grid) < 16
              /\ ~finished
        /\ (last'.op = "place_piece" /\ last'.status # OK) => grid' = grid
        /\ last'.op = "reset_board" => Placed(grid') = 0
        /\ last'.op # "reset_board" => Placed(grid') >= Placed(grid)
        /\ Placed(grid') = 16 => finished'
        /\ Placed(grid) = 16 => (last'.op = "place_piece" => last'.status # OK)
        /\ (last'.op = "place_piece" /\ ~finished /\ grid[last'.col] = "Empty") =>
              last'.status = OK
      ]_vars

\* The sixteenth placement of a game has filled the board: a draw.
C30_Witness ==
    /\ last.op = "place_piece"
    /\ last.status = OK
    /\ Placed(grid) = 16
    /\ rng = 0
    /\ finished
    /\ winner = None

\* C31: randomize is accepted in every state, won and drawn ones included,
\* and what it leaves is a function of the generator position alone: the
\* grid is the fill drawn from that position, winner is the winner of that
\* fill (a team or None, whatever it was before), finished is true and the
\* generator has advanced by sixteen draws.
C31_RandomizeIgnoresBoard ==
    [][last'.op = "random_board" =>
          /\ grid' = FillGrid((rng \div 16) + 1)
          /\ winner' = FillWinner((rng \div 16) + 1)
          /\ finished'
          /\ rng' = rng + 16
          /\ (winner = "Milk" /\ rng = 0) => winner' = "Cookie"
          /\ (winner # None /\ rng = 16) => winner' = None
      ]_vars

\* The first fill, won by Cookie, has replaced a full board.
C31_Witness ==
    /\ last.op = "random_board"
    /\ rng = 16
    /\ winner = "Cookie"
    /\ grid = Golden1

\* C32: from a randomize until the next reset (the only times the generator
\* has left position 0) all 16 playable cells hold Cookie or Milk and
\* finished is true, with or without a line; every rendering sent in that
\* time ends with a trailing line, and every place request is answered 503
\* with such a rendering.
C32_RandomizedIsTerminal ==
    rng > 0 =>
        /\ \A i \in Cells : ~Border(i) => grid[i] \in Tokens
        /\ finished
        /\ last.op \in {"board", "random_board", "place_piece"}
        /\ last.body = TextOf(grid, winner, TRUE)
        /\ Trailer(last.body) # << >>
        /\ last.op = "place_piece" => last.status = SERVICE_UNAVAILABLE

\* A cookie for column 1 has been refused on the second fill, which has no
\* line.
C32_Witness ==
    /\ rng = 32
    /\ winner = None
    /\ grid = Golden2
    /\ last.op = "place_piece"
    /\ last.team = "cookie"
    /\ last.col = 1
    /\ last.status = SERVICE_UNAVAILABLE

\* C33: a place request refused because its column is full leaves finished
\* false and is answered with the 35 characters of the grid and no trailing
\* line; the board is still in play, so a following place request into
\* another column that has an Empty cell succeeds and adds its piece.
C33_FullColumnIsNotTerminal ==
    [][ /\ (~finished /\ last'.op = "place_piece"
                /\ last'.status = SERVICE_UNAVAILABLE) =>
              /\ ColumnFull(grid, last'.col)
              /\ ~finished'
              /\ Len(last'.body) = 35
              /\ Trailer(last'.body) = << >>
        /\ (/\ last.op = "place_piece"
            /\ last.status = SERVICE_UNAVAILABLE
            /\ ColumnFull(grid, last.col)
            /\ ~finished
            /\ last'.op = "place_piece"
            /\ last'.col # last.col
            /\ ~ColumnFull(grid, last'.col)) =>
              /\ last'.status = OK
              /\ Placed(grid') = Placed(grid) + 1
              /\ ColumnFull(grid', last.col)
      ]_vars

\* A piece has been refused by a full column while another column still has
\* an Empty cell; the answer is the grid alone.
C33_Witness ==
    /\ last.op = "place_piece"
    /\ last.status = SERVICE_UNAVAILABLE
    /\ ColumnFull(grid, last.col)
    /\ \E col \in 1..4 : ~ColumnFull(grid, col)
    /\ ~finished
    /\ Len(last.body) = 35

\* C34: the finished check comes before the validation of the inputs: on a
\* finished board a place call or request whose column is outside 1..4 or
\* whose team is neither cookie nor milk is answered 503 with the text of
\* the board, trailing line included, and never 400 with an empty payload.
C34_FinishedBeforeValidation ==
    [][ (/\ finished
         /\ last'.op \in {"play_piece", "place_piece"}
         /\ (last'.col \notin 1..4 \/ last'.team \notin {"cookie", "milk"})) =>
            /\ last'.status = SERVICE_UNAVAILABLE
            /\ last'.status # BAD_REQUEST
            /\ last'.body = TextOf(grid, winner, TRUE)
            /\ Len(last'.body) > 35
            /\ BoardUnchanged
      ]_vars

\* Team "eggnog" for column 0 has been answered 503 on a board that was won.
C34_Witness ==
    /\ last.op = "place_piece"
    /\ last.team = "eggnog"
    /\ last.col = 0
    /\ last.status = SERVICE_UNAVAILABLE
    /\ finished
    /\ winner # None
    /\ Len(last.body) > 35

\* C38: check_winner never changes a cell or the generator position and
\* never turns finished from true to false: where none of the ten lines is
\* uniformly Cookie or Milk winner stays None and finished stays as it was,
\* and where a line is found winner and finished are all that may change.
C38_CheckWinnerFrame ==
    [][last'.op = "check_winner" =>
          /\ grid' = grid
          /\ rng' = rng
          /\ finished => finished'
          /\ IF HasLine(grid)
             THEN /\ winner' \in Tokens
                  /\ finished'
             ELSE /\ winner = None
                  /\ winner' = None
                  /\ finished' = finished
      ]_vars

\* check_winner has recorded a winner on a board with fewer than 16
\* pieces and has closed the game.
C38_Witness ==
    /\ last.op = "check_winner"
    /\ winner \in Tokens
    /\ finished
    /\ ~Full(grid)
    /\ HasLine(grid)

\* The cell task t has chosen for its piece, and a place request of task t
\* whose response is ready to be sent.
Wrote(t) == task[t].row * WIDTH + task[t].col

PlaceDone(t) == task[t].op = "place_piece" /\ At(t, "return")

\* C35: place requests served at the same time never write the same cell
\* and never lose a piece: each set_piece of a placement writes a cell that
\* is still Empty, on top of the pieces of its column, and adds one piece.
\* Of two requests into the same column, the second served right after the
\* first and the board as the second left it, either both succeed and their tokens lie in two cells of that
\* column one above the other, or the second is answered 503 because the
\* first finished the board or filled the column.
C35_NoLostPlacement ==
    [][ /\ \A t \in Tasks :
              (At(t, "set_piece") /\ task'[t].pc = task[t].pc + 1) =>
                  /\ grid[Wrote(t)] = "Empty"
                  /\ grid'[Wrote(t)] = TokenOf(task[t].team)
                  /\ \A row \in (task[t].row + 1)..3 :
                        grid[row * WIDTH + task[t].col] \in Tokens
                  /\ Placed(grid') = Placed(grid) + 1
        /\ \A a, b \in Tasks :
              (/\ a # b
               /\ PlaceDone(a) /\ PlaceDone(b)
               /\ task[a].col = task[b].col
               /\ task[a].status = OK
               /\ task[b].before =
                      place_piece(task[a].before, task[a].team, task[a].col).board
               /\ Self =
                      place_piece(task[b].before, task[b].team, task[b].col).board) =>
                  IF task[b].status = OK
                  THEN /\ task[b].row = task[a].row - 1
                       /\ grid[Wrote(a)] = TokenOf(task[a].team)
                       /\ grid[Wrote(b)] = TokenOf(task[b].team)
                  ELSE /\ task[b].status = SERVICE_UNAVAILABLE
                       /\ \/ task[b].before.finished
                          \/ ColumnFull(task[b].before.grid, task[b].col)
                       /\ grid = task[b].before.grid
      ]_vars

\* Both tasks have placed into column 1, a milk on top of a cookie, and
\* neither response has been sent yet.
C35_Witness ==
    /\ PlaceDone(1) /\ PlaceDone(2)
    /\ task[1].col = 1 /\ task[2].col = 1
    /\ task[1].status = OK /\ task[2].status = OK
    /\ task[1].team = "cookie" /\ task[2].team = "milk"
    /\ task[2].row = task[1].row - 1
    /\ grid[Wrote(1)] = "Cookie"
    /\ grid[Wrote(2)] = "Milk"

\* A random-board request of task t whose response is ready to be sent.
RandomDone(t) == task[t].op = "random_board" /\ At(t, "return")

\* C36: the sixteen draws of a random-board request are one block of the
\* generator's sequence: the draw for cell k is draw k of the block the
\* request started, made while the request holds the Mutex, so the draws of
\* two requests never interleave.  Two requests served one after the other
\* from a freshly reset board are therefore answered with the first and the
\* second golden grid, the texts of two randomize calls in sequence.
C36_RandomBlocks ==
    [][ /\ \A t \in Tasks :
              (At(t, "fill") /\ task'[t].pc = task[t].pc + 1) =>
                  /\ mutex = t
                  /\ rng = task[t].before.rng + (task[t].pc - 3)
                  /\ task[t].before.rng % 16 = 0
                  /\ rng' = rng + 1
        /\ \A a, b \in Tasks :
              (/\ a # b
               /\ RandomDone(a) /\ RandomDone(b)
               /\ task[a].before.rng = 0
               /\ task[b].before.rng = 16
               /\ rng = 32) =>
                  /\ task[a].body = TextOf(Golden1, "Cookie", TRUE)
                  /\ task[b].body = TextOf(Golden2, None, TRUE)
                  /\ task[b].before.grid = Golden1
                  /\ grid = Golden2
      ]_vars

\* Task 2 has been answered with the first golden grid and task 1 with the
\* second; neither response has been sent yet.
C36_Witness ==
    /\ RandomDone(1) /\ RandomDone(2)
    /\ task[2].before.rng = 0
    /\ task[1].before.rng = 16
    /\ rng = 32
    /\ task[2].body = TextOf(Golden1, "Cookie", TRUE)
    /\ task[1].body = TextOf(Golden2, None, TRUE)

\* C37: every cell that a step of a handler reads or writes has row < 5 and
\* col < 6, whatever column and team a place request carries, so no index
\* leaves the 30-cell grid, no task panics with the guard in its hands, the
\* Mutex is never poisoned and is held only by a task that is on its way to
\* its unlock; a request that locks later finds it free or waits for that.
C37_AccessesInGrid ==
    /\ \A t \in Tasks :
          task[t].pc > 0 =>
              \A a \in StepAccesses(t) :
                  /\ a[1] \in 0..(HEIGHT - 1)
                  /\ a[2] \in 0..(WIDTH - 1)
                  /\ InGrid(a)
    /\ mutex # Poisoned
    /\ mutex \in 0..NumTasks
    /\ mutex # 0 => /\ task[mutex].pc > 1
                    /\ task[mutex].pc <= Len(Steps(task[mutex].op)) - 1

\* A place request for column 12 has been answered 400, and the other task
\* has locked the board after it.
C37_Witness ==
    /\ task[1].op = "place_piece"
    /\ task[1].col = 12
    /\ At(1, "return")
    /\ task[1].status = BAD_REQUEST
    /\ mutex = 2
    /\ At(2, "render")

====
